---- MODULE Spec2Model ----
(***************************************************************************)
(* LyricPrint: the transcript parser, the text normalizer and the word     *)
(* aligner of LyricsSyncPlayer (src/main.py), modelled on character        *)
(* sequences.  A Python str is a sequence of one-character strings; a      *)
(* Python float is a record [nan, v] with v in hundredths of a second.     *)
(***************************************************************************)
EXTENDS Integers, Sequences, FiniteSets, TLC

VARIABLES
    pc,                \* position of the modelled call
    text,              \* normalize_text: the argument
    normalized,        \* normalize_text(text)
    renormalized,      \* normalize_text(normalize_text(text))
    lrc_text,          \* parse_lrc_file: the lines of the file read
    lyrics_with_time,  \* parse_lrc_file: the returned list
    structure_file,    \* create_word_level_lyrics: lines of structure_lrc
    timing_file,       \* create_word_level_lyrics: lines of timing_lrc
    structure_lines,   \* parse_lrc_file(structure_lrc)
    timing_sequence,   \* create_word_timing_map(timing_lrc)
    word_level_lyrics, \* the list being built, then returned
    timing_index,      \* the cursor into timing_sequence
    cursor_before,     \* timing_index as read at the start of the last word
    compared,          \* the indexes the search loop of the last word compared
    line_no,           \* index of the structure line being processed
    word_index,        \* index of the word within that line
    playback           \* the branch play_with_word_timing took

vars == <<pc, text, normalized, renormalized, lrc_text, lyrics_with_time,
          structure_file, timing_file, structure_lines, timing_sequence,
          word_level_lyrics, timing_index, cursor_before, compared, line_no,
          word_index, playback>>

normVars == <<text, normalized, renormalized>>
parseVars == <<lrc_text, lyrics_with_time>>
alignVars == <<structure_file, timing_file, structure_lines, timing_sequence,
               word_level_lyrics, timing_index, cursor_before, compared, line_no,
               word_index, playback>>

(***************************************************************************)
(* Bounds of the model.                                                    *)
(***************************************************************************)
MaxTextLen == 4
MaxLrcLines == 3
MaxStructLines == 2
MaxTimingLines == 3

\* All sequences over S of length at most n.
SeqsUpTo(S, n) == UNION {[1..k -> S] : k \in 0..n}

Max(a, b) == IF a >= b THEN a ELSE b
Min(a, b) == IF a <= b THEN a ELSE b

(***************************************************************************)
(* Characters and the str methods the code uses.                           *)
(***************************************************************************)
LowerLetters == <<"a","b","c","d","e","f","g","h","i","j","k","l","m",
                  "n","o","p","q","r","s","t","u","v","w","x","y","z">>
UpperLetters == <<"A","B","C","D","E","F","G","H","I","J","K","L","M",
                  "N","O","P","Q","R","S","T","U","V","W","X","Y","Z">>
DigitChars == <<"0","1","2","3","4","5","6","7","8","9">>

Range(s) == {s[i] : i \in DOMAIN s}

IsLower(c) == c \in Range(LowerLetters)
IsUpper(c) == c \in Range(UpperLetters)
IsDigit(c) == c \in Range(DigitChars)
\* regex \s
IsSpace(c) == c \in {" ", "\t"}
\* regex \w: letters, digits and the underscore
IsWordChar(c) == IsLower(c) \/ IsUpper(c) \/ IsDigit(c) \/ c = "_"

\* str.lower() on one character
LowerChar(c) ==
    IF IsUpper(c)
    THEN LowerLetters[CHOOSE i \in DOMAIN UpperLetters : UpperLetters[i] = c]
    ELSE c

\* str.lower()
Lower(s) == [i \in DOMAIN s |-> LowerChar(s[i])]

\* str.lstrip(), str.rstrip(), str.strip() with no argument
RECURSIVE LStrip(_)
LStrip(s) ==
    IF s # <<>> /\ IsSpace(Head(s)) THEN LStrip(Tail(s)) ELSE s

RECURSIVE RStrip(_)
RStrip(s) ==
    IF s # <<>> /\ IsSpace(s[Len(s)]) THEN RStrip(SubSeq(s, 1, Len(s) - 1))
    ELSE s

Strip(s) == LStrip(RStrip(s))

\* re.sub(r'\s+', ' ', s): every maximal run of whitespace becomes one space
RECURSIVE CollapseSpaces(_)
CollapseSpaces(s) ==
    IF s = <<>> THEN <<>>
    ELSE IF IsSpace(Head(s))
         THEN <<" ">> \o CollapseSpaces(LStrip(s))
         ELSE <<Head(s)>> \o CollapseSpaces(Tail(s))

\* re.sub(r'[^\w\s]', '', s): only \w and \s characters are kept
RECURSIVE RemovePunctuation(_)
RemovePunctuation(s) ==
    IF s = <<>> THEN <<>>
    ELSE IF IsWordChar(Head(s)) \/ IsSpace(Head(s))
         THEN <<Head(s)>> \o RemovePunctuation(Tail(s))
         ELSE RemovePunctuation(Tail(s))

\* LyricsSyncPlayer.normalize_text
normalize_text(s) == Strip(CollapseSpaces(RemovePunctuation(Lower(s))))

(***************************************************************************)
(* Python floats: a number of hundredths of a second, or nan.              *)
(***************************************************************************)
F(n) == [nan |-> FALSE, v |-> n]
NaN == [nan |-> TRUE, v |-> 0]

\* float + float
FAdd(a, b) == IF a.nan \/ b.nan THEN NaN ELSE F(a.v + b.v)
\* float < float: False whenever an operand is nan
FLess(a, b) == ~a.nan /\ ~b.nan /\ a.v < b.v
\* float >= float, float <= float: False whenever an operand is nan
FGeq(a, b) == ~a.nan /\ ~b.nan /\ a.v >= b.v
FLeq(a, b) == ~a.nan /\ ~b.nan /\ a.v <= b.v

(***************************************************************************)
(* list.sort(key=lambda x: x[0]) / sorted(..., key=lambda x: x[0]) as      *)
(* CPython runs it on a list shorter than 64 entries: the leading run is   *)
(* counted (and reversed when strictly descending), the rest is inserted   *)
(* by binary insertion; the only comparison is key < key.                  *)
(***************************************************************************)
RECURSIVE Reverse(_)
Reverse(s) == IF s = <<>> THEN <<>> ELSE Reverse(Tail(s)) \o <<Head(s)>>

\* length of the run s[1..n] extended while the next key is not smaller
RECURSIVE AscendingRun(_, _)
AscendingRun(s, n) ==
    IF n < Len(s) /\ ~FLess(s[n + 1].ts, s[n].ts)
    THEN AscendingRun(s, n + 1) ELSE n

\* length of the run s[1..n] extended while the next key is strictly smaller
RECURSIVE DescendingRun(_, _)
DescendingRun(s, n) ==
    IF n < Len(s) /\ FLess(s[n + 1].ts, s[n].ts)
    THEN DescendingRun(s, n + 1) ELSE n

\* s with its leading run in ascending order, and the length of that run
LeadingRun(s) ==
    IF Len(s) < 2 THEN [list |-> s, n |-> Len(s)]
    ELSE IF FLess(s[2].ts, s[1].ts)
         THEN LET n == DescendingRun(s, 2)
              IN  [list |-> Reverse(SubSeq(s, 1, n)) \o SubSeq(s, n + 1, Len(s)),
                   n |-> n]
         ELSE [list |-> s, n |-> AscendingRun(s, 2)]

\* the insertion point of pivot in s[l+1 .. r] (l, r counted from 0)
RECURSIVE Bisect(_, _, _, _)
Bisect(s, pivot, l, r) ==
    IF l >= r THEN l
    ELSE LET p == l + ((r - l) \div 2)
         IN  IF FLess(pivot.ts, s[p + 1].ts)
             THEN Bisect(s, pivot, l, p)
             ELSE Bisect(s, pivot, p + 1, r)

\* s[1..n] is sorted: insert s[n+1], s[n+2], ... one by one
RECURSIVE BinarySort(_, _)
BinarySort(s, n) ==
    IF n >= Len(s) THEN s
    ELSE LET pivot == s[n + 1]
             l == Bisect(s, pivot, 0, n)
         IN  BinarySort(SubSeq(s, 1, l) \o <<pivot>> \o SubSeq(s, l + 1, n)
                            \o SubSeq(s, n + 2, Len(s)),
                        n + 1)

SortByTimestamp(s) ==
    LET run == LeadingRun(s) IN BinarySort(run.list, run.n)

(***************************************************************************)
(* parse_lrc_file                                                          *)
(***************************************************************************)
\* s.startswith(prefix)
StartsWith(s, prefix) ==
    Len(s) >= Len(prefix) /\ SubSeq(s, 1, Len(prefix)) = prefix

\* sub in s
Contains(s, sub) ==
    \E i \in 1..(Len(s) - Len(sub) + 1) : SubSeq(s, i, i + Len(sub) - 1) = sub

\* s.index(c) for a character that occurs in s, counted from 1
IndexOf(s, c) == CHOOSE i \in DOMAIN s : s[i] = c /\ \A j \in 1..(i - 1) : s[j] # c

\* s.split(c): the parts of s between the occurrences of the character c
RECURSIVE SplitOn(_, _)
SplitOn(s, c) ==
    IF c \notin Range(s) THEN <<s>>
    ELSE LET i == IndexOf(s, c)
         IN  <<SubSeq(s, 1, i - 1)>> \o SplitOn(SubSeq(s, i + 1, Len(s)), c)

\* the tags of line 87
MetadataTags == { <<"a","r",":">>, <<"a","l",":">>, <<"t","i",":">>,
                  <<"l","e","n","g","t","h",":">>, <<"i","d",":">> }

\* line 87: the line starts with '[' and a tag occurs anywhere in it
IsMetadataLine(line) ==
    StartsWith(line, <<"[">>) /\ \E tag \in MetadataTags : Contains(Lower(line), tag)

AllDigits(s) == \A i \in DOMAIN s : IsDigit(s[i])
DigitValue(c) == (CHOOSE i \in DOMAIN DigitChars : DigitChars[i] = c) - 1

RECURSIVE DigitsValue(_)
DigitsValue(s) ==
    IF s = <<>> THEN 0
    ELSE 10 * DigitsValue(SubSeq(s, 1, Len(s) - 1)) + DigitValue(s[Len(s)])

HasSign(s) == s # <<>> /\ Head(s) \in {"+", "-"}
Unsigned(s) == IF HasSign(s) THEN Tail(s) ELSE s
SignOf(s) == IF s # <<>> /\ Head(s) = "-" THEN -1 ELSE 1

\* int(s) for the literals [ws][+-]digits[ws]; anything else is a ValueError
ParseInt(s) ==
    LET t == Strip(s)
        d == Unsigned(t)
    IN  IF d # <<>> /\ AllDigits(d)
        THEN [ok |-> TRUE, v |-> SignOf(t) * DigitsValue(d)]
        ELSE [ok |-> FALSE, v |-> 0]

\* the fraction digits as hundredths (two fraction digits are kept)
Hundredths(fp) ==
    IF Len(fp) = 0 THEN 0
    ELSE IF Len(fp) = 1 THEN 10 * DigitValue(fp[1])
    ELSE 10 * DigitValue(fp[1]) + DigitValue(fp[2])

\* float(s) for the literals [ws][+-](digits[.digits] | .digits | nan)[ws];
\* anything else is a ValueError
ParseFloat(s) ==
    LET t == Strip(s)
        d == Unsigned(t)
        parts == SplitOn(d, ".")
        ip == parts[1]
        fp == IF Len(parts) > 1 THEN parts[2] ELSE <<>>
    IN  IF Lower(d) = <<"n","a","n">>
        THEN [ok |-> TRUE, v |-> NaN]
        ELSE IF Len(parts) <= 2 /\ AllDigits(ip) /\ AllDigits(fp)
                /\ (ip # <<>> \/ fp # <<>>)
             THEN [ok |-> TRUE,
                   v |-> F(SignOf(t) * (100 * DigitsValue(ip) + Hundredths(fp)))]
             ELSE [ok |-> FALSE, v |-> NaN]

\* lines 82-106 for one line of the file: the entries it appends (none or one).
\* src is the number of the line in the file; the code does not keep it.
ParseLine(raw, src) ==
    LET line == Strip(raw)
    IN  IF line = <<>> THEN <<>>
        ELSE IF IsMetadataLine(line) THEN <<>>
        ELSE IF ~(StartsWith(line, <<"[">>) /\ "]" \in Range(line)) THEN <<>>
        ELSE
          LET close == IndexOf(line, "]")
              timestamp_str == SubSeq(line, 2, close - 1)
              lyric_text == Strip(SubSeq(line, close + 1, Len(line)))
          IN  IF ":" \notin Range(timestamp_str) THEN <<>>
              ELSE
                LET time_parts == SplitOn(timestamp_str, ":")
                    minutes == ParseInt(time_parts[1])
                    seconds == ParseFloat(time_parts[2])
                IN  IF ~minutes.ok \/ ~seconds.ok THEN <<>>
                    ELSE IF lyric_text = <<>> THEN <<>>
                    ELSE << [ts |-> FAdd(F(minutes.v * 60 * 100), seconds.v),
                             text |-> lyric_text,
                             src |-> src] >>

\* the list built by the loop of lines 81-106 over lines[from..]
RECURSIVE ParseLines(_, _)
ParseLines(lines, from) ==
    IF from > Len(lines) THEN <<>>
    ELSE ParseLine(lines[from], from) \o ParseLines(lines, from + 1)

\* LyricsSyncPlayer.parse_lrc_file on a readable file with these lines
parse_lrc_file(lines) == SortByTimestamp(ParseLines(lines, 1))

(***************************************************************************)
(* create_word_timing_map                                                  *)
(***************************************************************************)
\* lines 122-125 over the parsed timing lines from index from on: one entry
\* (timestamp, normalized text, text) per parsed line whose normalized text
\* is not empty
RECURSIVE TimingEntries(_, _)
TimingEntries(timing_words, from) ==
    IF from > Len(timing_words) THEN <<>>
    ELSE LET word == timing_words[from].text
             normalized_word == normalize_text(word)
         IN  (IF normalized_word # <<>>
              THEN << [ts |-> timing_words[from].ts,
                       norm |-> normalized_word,
                       orig |-> word] >>
              ELSE <<>>)
             \o TimingEntries(timing_words, from + 1)

\* LyricsSyncPlayer.create_word_timing_map on a readable file with these lines
create_word_timing_map(lines) == TimingEntries(parse_lrc_file(lines), 1)

(***************************************************************************)
(* difflib.SequenceMatcher(None, a, b).ratio() for strings shorter than    *)
(* 200 characters (no junk, no popular characters).  Indexes count from 0, *)
(* upper ends are exclusive.                                               *)
(***************************************************************************)
\* length of the common run of a[i..ahi) and b[j..bhi)
RECURSIVE CommonRun(_, _, _, _, _, _)
CommonRun(a, b, i, j, ahi, bhi) ==
    IF i < ahi /\ j < bhi /\ a[i + 1] = b[j + 1]
    THEN 1 + CommonRun(a, b, i + 1, j + 1, ahi, bhi)
    ELSE 0

\* find_longest_match: the longest block, the earliest in a, then in b
FindLongestMatch(a, b, alo, ahi, blo, bhi) ==
    LET starts == (alo..(ahi - 1)) \X (blo..(bhi - 1))
        size(p) == CommonRun(a, b, p[1], p[2], ahi, bhi)
        longest == IF starts = {} THEN 0
                   ELSE CHOOSE k \in {size(p) : p \in starts} :
                            \A p \in starts : size(p) <= k
    IN  IF longest = 0 THEN [i |-> alo, j |-> blo, k |-> 0]
        ELSE LET best == CHOOSE p \in starts :
                            /\ size(p) = longest
                            /\ \A q \in starts : size(q) = longest =>
                                  \/ p[1] < q[1]
                                  \/ (p[1] = q[1] /\ p[2] <= q[2])
             IN  [i |-> best[1], j |-> best[2], k |-> longest]

\* the total size of get_matching_blocks over a[alo..ahi), b[blo..bhi)
RECURSIVE MatchingSize(_, _, _, _, _, _)
MatchingSize(a, b, alo, ahi, blo, bhi) ==
    LET m == FindLongestMatch(a, b, alo, ahi, blo, bhi)
    IN  IF m.k = 0 THEN 0
        ELSE m.k
             + (IF alo < m.i /\ blo < m.j
                THEN MatchingSize(a, b, alo, m.i, blo, m.j) ELSE 0)
             + (IF m.i + m.k < ahi /\ m.j + m.k < bhi
                THEN MatchingSize(a, b, m.i + m.k, ahi, m.j + m.k, bhi) ELSE 0)

\* the threshold of line 166, in tenths
SimilarityThreshold == 8

\* lines 165-166: ratio() > 0.8, where ratio() is 2.0 * matches / length
\* and 1.0 when both strings are empty
Similar(a, b) ==
    LET length == Len(a) + Len(b)
        matches == MatchingSize(a, b, 0, Len(a), 0, Len(b))
    IN  IF length = 0 THEN 10 > SimilarityThreshold
        ELSE 2 * matches * 10 > SimilarityThreshold * length

(***************************************************************************)
(* create_word_level_lyrics                                                *)
(***************************************************************************)
\* str.split() taken for a split on line ends: the trimmed text as one word
SplitWholeText(s) == IF Strip(s) = <<>> THEN <<>> ELSE <<Strip(s)>>

\* str.split() with no argument: the maximal runs of non-whitespace
RECURSIVE Split(_)
Split(s) ==
    LET t == LStrip(s)
    IN  IF t = <<>> THEN <<>>
        ELSE LET n == CHOOSE k \in 1..Len(t) :
                         /\ \A i \in 1..k : ~IsSpace(t[i])
                         /\ (k = Len(t) \/ IsSpace(t[k + 1]))
             IN  <<SubSeq(t, 1, n)>> \o Split(SubSeq(t, n + 1, Len(t)))

\* line 136 testing the structure lines alone
OnlyStructureChecked(lines, sequence) == lines = <<>>

\* line 136: one of the two parsed inputs is empty
AlignmentUnavailable(lines, sequence) == lines = <<>> \/ sequence = <<>>

\* the window of lines 157-158
BackTrack == 2
LookAhead == 50
\* a window reaching three entries back
SearchStartThreeBack(index) == Max(0, index - (BackTrack + 1))
SearchStart(index) == Max(0, index - BackTrack)
\* a look-ahead one entry too long
SearchEndOneFurther(n, index) == Min(n, index + LookAhead + 1)
SearchEnd(n, index) == Min(n, index + LookAhead)

\* lines 160-169: the first index of the window (counted from 0) whose entry
\* is similar to the word, or -1 when there is none
FirstMatch(normalized_word, sequence, index) ==
    LET window == SearchStart(index)..(SearchEnd(Len(sequence), index) - 1)
        hits == {i \in window : Similar(normalized_word, sequence[i + 1].norm)}
    IN  IF hits = {} THEN -1
        ELSE CHOOSE i \in hits : \A j \in hits : i <= j

\* lines 160-169: the indexes the loop compares, the window up to the first
\* match (the break of line 169)
ComparedIndexes(normalized_word, sequence, index) ==
    LET first == FirstMatch(normalized_word, sequence, index)
    IN  {i \in SearchStart(index)..(SearchEnd(Len(sequence), index) - 1) :
            first = -1 \/ i <= first}

\* the gap of line 178, in hundredths of a second
FallbackGap == 30

\* lines 172-178 estimating every later word from the line's timestamp
FallbackFromLineTimestamp(idx, line_timestamp, lyrics) ==
    IF idx = 0 THEN line_timestamp
    ELSE FAdd(line_timestamp, F(FallbackGap))

\* lines 172-178: the timestamp of a word that found no match
FallbackTiming(idx, line_timestamp, lyrics) ==
    IF idx = 0 THEN line_timestamp
    ELSE LET prev_timing == IF lyrics # <<>> THEN lyrics[Len(lyrics)].ts
                            ELSE line_timestamp
         IN  FAdd(prev_timing, F(FallbackGap))

\* line 181 off by one
IsLineEndOffByOne(idx, line_words) == idx = Len(line_words)

\* line 181
IsLineEnd(idx, line_words) == idx = Len(line_words) - 1

(***************************************************************************)
(* Inputs.                                                                 *)
(***************************************************************************)
\* the characters normalize_text is applied to
TextChars == {"a", "B", "7", "_", "-", "'", ".", " ", "\t"}

\* the lines a transcript given to parse_lrc_file is made of
LrcPool == {
    \* [00:10.50]hello
    <<"[","0","0",":","1","0",".","5","0","]","h","e","l","l","o">>,
    \* [00:05.00]said: hi
    <<"[","0","0",":","0","5",".","0","0","]","s","a","i","d",":"," ","h","i">>,
    \* [ar:Artist]
    <<"[","a","r",":","A","r","t","i","s","t","]">>,
    \* [-1:00]neg
    <<"[","-","1",":","0","0","]","n","e","g">>,
    \* [0:nan]x
    <<"[","0",":","n","a","n","]","x">>,
    \* [00:10.50]bye
    <<"[","0","0",":","1","0",".","5","0","]","b","y","e">>,
    \* [00:02.00]   
    <<"[","0","0",":","0","2",".","0","0","]"," "," "," ">>,
    \* ''
    <<>>,
    \* la la
    <<"l","a"," ","l","a">>,
    \* [xx:10]bad
    <<"[","x","x",":","1","0","]","b","a","d">>,
    \* [01:02.5] up 
    <<"[","0","1",":","0","2",".","5","]"," ","u","p"," ">>
}

\* the lines of the structure transcript
StructurePool == {
    \* [0:01]b a
    <<"[","0",":","0","1","]","b"," ","a">>,
    \* [0:02]a
    <<"[","0",":","0","2","]","a">>,
    \* [0:03]Helo, x
    <<"[","0",":","0","3","]","H","e","l","o",","," ","x">>,
    \* [0:nan]q
    <<"[","0",":","n","a","n","]","q">>
}

\* the lines of the timing transcript
TimingPool == {
    \* [0:01]a
    <<"[","0",":","0","1","]","a">>,
    \* [0:02]b
    <<"[","0",":","0","2","]","b">>,
    \* [0:02]hello a
    <<"[","0",":","0","2","]","h","e","l","l","o"," ","a">>,
    \* [0:04]hello
    <<"[","0",":","0","4","]","h","e","l","l","o">>,
    \* [0:03]...
    <<"[","0",":","0","3","]",".",".",".">>
}

\* timing transcripts longer than the look-ahead of line 158, in ascending
\* timestamp order: a line that matches no structure word, hello, then as
\* many lines that match nothing as put the final x at index LookAhead + 1
\* or LookAhead + 2 (counted from 0)
NoMatchLine == <<"[","0",":","0","3","]","z","z">>
LongTimingFiles ==
    { << <<"[","0",":","0","1","]","z","z">>,
         <<"[","0",":","0","2","]","h","e","l","l","o">> >>
        \o [i \in 1..k |-> NoMatchLine]
        \o << <<"[","0",":","0","5","]","x">> >> :
      k \in {LookAhead - 1, LookAhead} }

(***************************************************************************)
(* normalize_text applied to a string, then to its own result.             *)
(***************************************************************************)
NormalizerInit ==
    /\ pc = "normalize"
    /\ text \in SeqsUpTo(TextChars, MaxTextLen)
    /\ normalized = <<>> /\ renormalized = <<>>
    /\ lrc_text = <<>> /\ lyrics_with_time = <<>>
    /\ structure_file = <<>> /\ timing_file = <<>>
    /\ structure_lines = <<>> /\ timing_sequence = <<>>
    /\ word_level_lyrics = <<>>
    /\ timing_index = 0 /\ cursor_before = 0 /\ compared = {}
    /\ line_no = 0 /\ word_index = 0
    /\ playback = "none"

Normalize ==
    /\ pc = "normalize"
    /\ normalized' = normalize_text(text)
    /\ pc' = "normalized"
    /\ UNCHANGED <<text, renormalized, parseVars, alignVars>>

NormalizeAgain ==
    /\ pc = "normalized"
    /\ renormalized' = normalize_text(normalized)
    /\ pc' = "renormalized"
    /\ UNCHANGED <<text, normalized, parseVars, alignVars>>

NormalizerNext == Normalize \/ NormalizeAgain

NormalizerSpec == NormalizerInit /\ [][NormalizerNext]_vars

(***************************************************************************)
(* parse_lrc_file applied to a transcript.                                 *)
(***************************************************************************)
ParserInit ==
    /\ pc = "parse"
    /\ lrc_text \in SeqsUpTo(LrcPool, MaxLrcLines)
    /\ lyrics_with_time = <<>>
    /\ text = <<>> /\ normalized = <<>> /\ renormalized = <<>>
    /\ structure_file = <<>> /\ timing_file = <<>>
    /\ structure_lines = <<>> /\ timing_sequence = <<>>
    /\ word_level_lyrics = <<>>
    /\ timing_index = 0 /\ cursor_before = 0 /\ compared = {}
    /\ line_no = 0 /\ word_index = 0
    /\ playback = "none"

ParseLrcFile ==
    /\ pc = "parse"
    /\ lyrics_with_time' = parse_lrc_file(lrc_text)
    /\ pc' = "parsed"
    /\ UNCHANGED <<lrc_text, normVars, alignVars>>

ParserNext == ParseLrcFile

ParserSpec == ParserInit /\ [][ParserNext]_vars

(***************************************************************************)
(* play_with_word_timing: create_word_level_lyrics, then the branch of     *)
(* line 198.                                                               *)
(***************************************************************************)
Init ==
    /\ pc = "start"
    /\ structure_file \in SeqsUpTo(StructurePool, MaxStructLines)
    /\ timing_file \in SeqsUpTo(TimingPool, MaxTimingLines) \cup LongTimingFiles
    /\ structure_lines = <<>> /\ timing_sequence = <<>>
    /\ word_level_lyrics = <<>>
    /\ timing_index = 0 /\ cursor_before = 0 /\ compared = {}
    /\ line_no = 0 /\ word_index = 0
    /\ playback = "none"
    /\ text = <<>> /\ normalized = <<>> /\ renormalized = <<>>
    /\ lrc_text = <<>> /\ lyrics_with_time = <<>>

\* lines 132-134
ParseTranscripts ==
    /\ pc = "start"
    /\ structure_lines' = parse_lrc_file(structure_file)
    /\ timing_sequence' = create_word_timing_map(timing_file)
    /\ pc' = "parsed"
    /\ UNCHANGED <<structure_file, timing_file, word_level_lyrics, timing_index,
                   cursor_before, compared, line_no, word_index, playback,
                   normVars, parseVars>>

\* lines 136-138
ReturnEmpty ==
    /\ pc = "parsed"
    /\ AlignmentUnavailable(structure_lines, timing_sequence)
    /\ word_level_lyrics' = <<>>
    /\ pc' = "returned"
    /\ UNCHANGED <<structure_file, timing_file, structure_lines, timing_sequence,
                   timing_index, cursor_before, compared, line_no, word_index, playback,
                   normVars, parseVars>>

\* lines 141-142
BeginAlignment ==
    /\ pc = "parsed"
    /\ ~AlignmentUnavailable(structure_lines, timing_sequence)
    /\ word_level_lyrics' = <<>>
    /\ timing_index' = 0
    /\ cursor_before' = 0
    /\ compared' = {}
    /\ line_no' = 1
    /\ word_index' = 0
    /\ pc' = "align"
    /\ UNCHANGED <<structure_file, timing_file, structure_lines, timing_sequence,
                   playback, normVars, parseVars>>

\* lines 144-182: one iteration of the inner loop (one word of the current
\* line), or the continue of line 146 for a line without words.  The fields
\* line and idx of an entry say where it comes from; the code does not keep
\* them.
AlignWord ==
    /\ pc = "align"
    /\ line_no <= Len(structure_lines)
    /\ LET line_timestamp == structure_lines[line_no].ts
           line_words == Split(structure_lines[line_no].text)
       IN  IF line_words = <<>>
           THEN /\ line_no' = line_no + 1
                /\ UNCHANGED <<word_level_lyrics, timing_index, cursor_before,
                               compared, word_index>>
           ELSE LET word == line_words[word_index + 1]
                    normalized_word == normalize_text(word)
                    search_idx == FirstMatch(normalized_word, timing_sequence,
                                             timing_index)
                    found_timing ==
                        IF search_idx >= 0
                        THEN timing_sequence[search_idx + 1].ts
                        ELSE FallbackTiming(word_index, line_timestamp,
                                            word_level_lyrics)
                IN  /\ cursor_before' = timing_index
                    /\ compared' = ComparedIndexes(normalized_word,
                                                    timing_sequence, timing_index)
                    /\ timing_index' = IF search_idx >= 0 THEN search_idx + 1
                                       ELSE timing_index
                    /\ word_level_lyrics' = Append(word_level_lyrics,
                           [ts |-> found_timing,
                            word |-> word,
                            is_line_end |-> IsLineEnd(word_index, line_words),
                            line |-> line_no,
                            idx |-> word_index])
                    /\ IF word_index + 1 < Len(line_words)
                       THEN word_index' = word_index + 1 /\ line_no' = line_no
                       ELSE word_index' = 0 /\ line_no' = line_no + 1
    /\ pc' = "align"
    /\ UNCHANGED <<structure_file, timing_file, structure_lines, timing_sequence,
                   playback, normVars, parseVars>>

\* lines 184-187
SortAndReturn ==
    /\ pc = "align"
    /\ line_no > Len(structure_lines)
    /\ word_level_lyrics' = SortByTimestamp(word_level_lyrics)
    /\ pc' = "returned"
    /\ UNCHANGED <<structure_file, timing_file, structure_lines, timing_sequence,
                   timing_index, cursor_before, compared, line_no, word_index, playback,
                   normVars, parseVars>>

\* lines 198-202
PlayMusicOnly ==
    /\ pc = "returned"
    /\ word_level_lyrics = <<>>
    /\ playback' = "music_only"
    /\ pc' = "played"
    /\ UNCHANGED <<structure_file, timing_file, structure_lines, timing_sequence,
                   word_level_lyrics, timing_index, cursor_before, compared, line_no,
                   word_index, normVars, parseVars>>

\* lines 204-254
PlayWordTimed ==
    /\ pc = "returned"
    /\ word_level_lyrics # <<>>
    /\ playback' = "word_timed"
    /\ pc' = "played"
    /\ UNCHANGED <<structure_file, timing_file, structure_lines, timing_sequence,
                   word_level_lyrics, timing_index, cursor_before, compared, line_no,
                   word_index, normVars, parseVars>>

Next ==
    \/ ParseTranscripts
    \/ ReturnEmpty
    \/ BeginAlignment
    \/ AlignWord
    \/ SortAndReturn
    \/ PlayMusicOnly
    \/ PlayWordTimed

Spec == Init /\ [][Next]_vars

(***************************************************************************)
(* Properties.                                                             *)
(***************************************************************************)
Returned == pc \in {"returned", "played"}

\* the number of whitespace-separated words of a text
WordCount(s) ==
    Cardinality({i \in DOMAIN s :
                    ~IsSpace(s[i]) /\ (i = 1 \/ IsSpace(s[i - 1]))})

\* the number of whitespace-separated words of lines[1..n]
RECURSIVE TotalWords(_, _)
TotalWords(lines, n) ==
    IF n = 0 THEN 0
    ELSE TotalWords(lines, n - 1) + WordCount(lines[n].text)

\* the entries of the output that come from word k (from 0) of line l
EntriesOf(l, k) ==
    {i \in DOMAIN word_level_lyrics :
        word_level_lyrics[i].line = l /\ word_level_lyrics[i].idx = k}

\* every word of every parsed structure line has exactly one entry
OneEntryPerWord ==
    \A l \in DOMAIN structure_lines :
        \A k \in 0..(WordCount(structure_lines[l].text) - 1) :
            Cardinality(EntriesOf(l, k)) = 1

\* C1 as stated: for any two transcripts the returned list has exactly as
\* many entries as the parsed structure lines have words, one per word.
C1_LengthIsWordCount ==
    Returned =>
        /\ Len(word_level_lyrics)
              = TotalWords(structure_lines, Len(structure_lines))
        /\ OneEntryPerWord

\* C1 amended: when the timing sequence is not empty the returned list has
\* exactly one entry per word of the parsed structure lines; when it is
\* empty the returned list is empty.
C1_LengthIsWordCountWhenTimed ==
    Returned =>
        IF timing_sequence = <<>>
        THEN word_level_lyrics = <<>>
        ELSE /\ Len(word_level_lyrics)
                   = TotalWords(structure_lines, Len(structure_lines))
             /\ OneEntryPerWord

C1_Witness ==
    /\ pc = "returned"
    /\ timing_sequence # <<>>
    /\ Len(structure_lines) = 2
    /\ Len(word_level_lyrics) = 4

\* entry i was produced before entry j: structure line order, then word order
ProducedBefore(i, j) ==
    \/ word_level_lyrics[i].line < word_level_lyrics[j].line
    \/ /\ word_level_lyrics[i].line = word_level_lyrics[j].line
       /\ word_level_lyrics[i].idx < word_level_lyrics[j].idx

\* C2: the returned list is non-decreasing in timestamp, and entries with
\* equal timestamps keep the order in which they were produced.
C2_SortedStable ==
    Returned =>
        \A i, j \in DOMAIN word_level_lyrics : i < j =>
            /\ FLeq(word_level_lyrics[i].ts, word_level_lyrics[j].ts)
            /\ word_level_lyrics[i].ts = word_level_lyrics[j].ts
                  => ProducedBefore(i, j)

\* in the output, line l has exactly one entry flagged is_line_end, its last
\* word, and one unflagged entry for each of its other words
LineEndOnLastWord(l) ==
    LET n == WordCount(structure_lines[l].text)
        flagged == {i \in DOMAIN word_level_lyrics :
                       /\ word_level_lyrics[i].line = l
                       /\ word_level_lyrics[i].is_line_end}
    IN  /\ Cardinality(flagged) = 1
        /\ \A i \in flagged : word_level_lyrics[i].idx = n - 1
        /\ \A k \in 0..(n - 2) :
              /\ EntriesOf(l, k) # {}
              /\ \A i \in EntriesOf(l, k) : ~word_level_lyrics[i].is_line_end

\* C3 as stated: in the output every parsed structure line has exactly one
\* entry with is_line_end true, the line's last word.
C3_OneLineEndPerLine ==
    Returned => \A l \in DOMAIN structure_lines : LineEndOnLastWord(l)

\* C3 amended: when the timing sequence is not empty, every parsed structure
\* line has exactly one entry with is_line_end true in the output, the
\* line's last word; when it is empty the output has no entry at all.
C3_OneLineEndPerLineWhenTimed ==
    Returned =>
        IF timing_sequence = <<>>
        THEN word_level_lyrics = <<>>
        ELSE \A l \in DOMAIN structure_lines : LineEndOnLastWord(l)

C3_Witness ==
    /\ pc = "returned"
    /\ \E l, m \in DOMAIN structure_lines :
          /\ WordCount(structure_lines[l].text) = 2
          /\ WordCount(structure_lines[m].text) = 1
    /\ Len(word_level_lyrics) = 3

\* C4: when the structure transcript parses to no line or the timing
\* sequence has no entry, create_word_level_lyrics returns the empty list
\* and play_with_word_timing takes the play_music_only branch.
C4_EmptyInputFallsBack ==
    (structure_lines = <<>> \/ timing_sequence = <<>>) =>
        /\ pc \in {"start", "parsed", "returned", "played"}
        /\ word_level_lyrics = <<>>
        /\ playback \in {"none", "music_only"}
        /\ pc = "played" => playback = "music_only"

C4_Witness ==
    /\ pc = "played"
    /\ playback = "music_only"
    /\ structure_lines # <<>>
    /\ timing_sequence = <<>>

\* C5: the list parse_lrc_file returns is sorted by timestamp ascending,
\* entries of equal timestamp in input order, and holds no entry of a line
\* whose bracketed tag is a metadata keyword.
MetadataKeywords == { <<"t","i">>, <<"a","r">>, <<"a","l">>, <<"i","d">>,
                      <<"l","e","n","g","t","h">> }

\* the text between the leading '[' and the first ']' of a trimmed line
HasBracketedTag(line) == StartsWith(line, <<"[">>) /\ "]" \in Range(line)
BracketedTag(line) == SubSeq(line, 2, IndexOf(line, "]") - 1)

\* the bracketed tag of the line is a metadata keyword (with its value)
HasMetadataTag(raw) ==
    LET line == Strip(raw)
    IN  /\ HasBracketedTag(line)
        /\ Lower(SplitOn(BracketedTag(line), ":")[1]) \in MetadataKeywords

C5_SortedWithoutMetadata ==
    pc = "parsed" =>
        /\ \A i, j \in DOMAIN lyrics_with_time : i < j =>
              /\ FLeq(lyrics_with_time[i].ts, lyrics_with_time[j].ts)
              /\ lyrics_with_time[i].ts = lyrics_with_time[j].ts
                    => lyrics_with_time[i].src < lyrics_with_time[j].src
        /\ \A i \in DOMAIN lyrics_with_time :
              ~HasMetadataTag(lrc_text[lyrics_with_time[i].src])

\* the line has the shape [mm:ss.xx]text: mm one or more digits, ss.xx
\* digits with an optional fraction, text not empty once trimmed
IsSeconds(s) ==
    LET parts == SplitOn(s, ".")
    IN  /\ Len(parts) <= 2
        /\ parts[1] # <<>> /\ AllDigits(parts[1])
        /\ Len(parts) = 2 => parts[2] # <<>> /\ AllDigits(parts[2])

IsTimedLine(raw) ==
    LET line == Strip(raw)
    IN  /\ HasBracketedTag(line)
        /\ LET parts == SplitOn(BracketedTag(line), ":")
           IN  /\ Len(parts) = 2
               /\ parts[1] # <<>> /\ AllDigits(parts[1])
               /\ IsSeconds(parts[2])
        /\ Strip(SubSeq(line, IndexOf(line, "]") + 1, Len(line))) # <<>>

\* mm * 60 + ss.xx of a line of that shape, and its trimmed text
TimedLineSeconds(raw) ==
    LET parts == SplitOn(BracketedTag(Strip(raw)), ":")
        secs == SplitOn(parts[2], ".")
    IN  F(6000 * DigitsValue(parts[1]) + 100 * DigitsValue(secs[1])
            + (IF Len(secs) = 2 THEN Hundredths(secs[2]) ELSE 0))

TimedLineText(raw) ==
    LET line == Strip(raw)
    IN  Strip(SubSeq(line, IndexOf(line, "]") + 1, Len(line)))

\* C6: every line of the shape [mm:ss.xx]text yields exactly one TimedLine
\* (mm*60 + ss.xx, trimmed text), whatever its text contains: a line is
\* ignored only when its bracketed tag is a metadata keyword, when it is
\* blank or has no timestamp, or when it has no content.
C6_EveryTimedLineParsed ==
    pc = "parsed" =>
        \A n \in DOMAIN lrc_text :
            LET got == {i \in DOMAIN lyrics_with_time :
                           lyrics_with_time[i].src = n}
            IN  IsTimedLine(lrc_text[n]) =>
                    /\ Cardinality(got) = 1
                    /\ \A i \in got :
                          /\ lyrics_with_time[i].ts
                                = TimedLineSeconds(lrc_text[n])
                          /\ lyrics_with_time[i].text
                                = TimedLineText(lrc_text[n])

\* the minutes field is one or more digits and the seconds field is a
\* non-negative seconds value
HasTimeFields(raw) ==
    LET line == Strip(raw)
    IN  /\ HasBracketedTag(line)
        /\ LET parts == SplitOn(BracketedTag(line), ":")
           IN  /\ Len(parts) >= 2
               /\ parts[1] # <<>> /\ AllDigits(parts[1])
               /\ IsSeconds(parts[2])

\* C7: every TimedLine returned has a non-negative timestamp and a non-empty
\* text; a line whose minutes are not digits or whose seconds are not a
\* non-negative seconds value yields none.
C7_NonNegativeNonEmpty ==
    pc = "parsed" =>
        \A i \in DOMAIN lyrics_with_time :
            /\ FGeq(lyrics_with_time[i].ts, F(0))
            /\ lyrics_with_time[i].text # <<>>
            /\ HasTimeFields(lrc_text[lyrics_with_time[i].src])

\* only lowercase letters, digits and single interior spaces
IsCanonical(s) ==
    /\ \A i \in DOMAIN s : IsLower(s[i]) \/ IsDigit(s[i]) \/ s[i] = " "
    /\ s # <<>> => s[1] # " " /\ s[Len(s)] # " "
    /\ \A i \in 1..(Len(s) - 1) : ~(s[i] = " " /\ s[i + 1] = " ")

\* no letter and no digit
OnlyPunctuationOrSpace(s) ==
    \A i \in DOMAIN s : ~(IsLower(s[i]) \/ IsUpper(s[i]) \/ IsDigit(s[i]))

\* C8: normalize_text returns only lowercase alphanumerics and single
\* interior spaces, maps punctuation and whitespace to the empty string, and
\* is idempotent.
C8_NormalizerCanonical ==
    /\ pc \in {"normalized", "renormalized"} =>
          /\ IsCanonical(normalized)
          /\ OnlyPunctuationOrSpace(text) => normalized = <<>>
    /\ pc = "renormalized" => renormalized = normalized

\* C9 as stated: the cursor never decreases: after a structure word its
\* value is at least its value before that word.
C9_CursorNeverDecreases ==
    pc = "align" => timing_index >= cursor_before

\* C9 amended: the cursor starts at 0, stays within the timing sequence and
\* after a structure word is at least its value before that word minus one
\* (the window reaches two entries back, and a match at index i leaves the
\* cursor at i + 1).
C9_CursorBacktracksAtMostOne ==
    /\ pc \in {"start", "parsed"} => timing_index = 0
    /\ pc = "align" =>
          /\ timing_index >= cursor_before - 1
          /\ timing_index >= 0
          /\ timing_index <= Len(timing_sequence)
          /\ word_level_lyrics = <<>> => timing_index = 0

C9_Witness ==
    /\ pc = "align"
    /\ cursor_before = 2
    /\ timing_index = 1

\* the entries a parsed timing line contributes, one per word whose
\* normalized form is not empty
RECURSIVE WordEntries(_, _)
WordEntries(ts, words) ==
    IF words = <<>> THEN <<>>
    ELSE (IF normalize_text(Head(words)) # <<>>
          THEN << [ts |-> ts, norm |-> normalize_text(Head(words))] >>
          ELSE <<>>)
         \o WordEntries(ts, Tail(words))

RECURSIVE PerWordSequence(_, _)
PerWordSequence(lines, from) ==
    IF from > Len(lines) THEN <<>>
    ELSE WordEntries(lines[from].ts, Split(lines[from].text))
         \o PerWordSequence(lines, from + 1)

\* C10: the timing sequence holds one entry per word of each timing line,
\* with the line's timestamp and the normalized word, in transcript order.
C10_OneEntryPerTimingWord ==
    pc # "start" =>
        [i \in DOMAIN timing_sequence |->
            [ts |-> timing_sequence[i].ts, norm |-> timing_sequence[i].norm]]
          = PerWordSequence(parse_lrc_file(timing_file), 1)

\* C11: the returned list presents the words in structure order, lines in
\* transcript order and words in their order within the line, so the entry
\* flagged is_line_end comes after every other entry of its line and before
\* every entry of the following line.
C11_StructureOrder ==
    Returned =>
        /\ \A i, j \in DOMAIN word_level_lyrics :
              i < j => ProducedBefore(i, j)
        /\ \A i, j \in DOMAIN word_level_lyrics :
              word_level_lyrics[i].is_line_end =>
                 /\ (j # i /\ word_level_lyrics[j].line
                                 = word_level_lyrics[i].line) => j < i
                 /\ word_level_lyrics[j].line
                       = word_level_lyrics[i].line + 1 => i < j

\* the entry appended for the word processed last
LastEntry == word_level_lyrics[Len(word_level_lyrics)]
WordProcessed == pc = "align" /\ word_level_lyrics # <<>>

\* the indexes (from 0) of a timing sequence of n entries that lie in the
\* search window of a word processed with cursor c
WindowOf(c, n) == {i \in 0..(n - 1) : i >= c - 2 /\ i < c + 50}

\* the indexes of the window whose entry is similar to the word
CandidatesOf(word, c) ==
    {i \in WindowOf(c, Len(timing_sequence)) :
        Similar(normalize_text(word), timing_sequence[i + 1].norm)}

\* C12: a word with no candidate above the threshold in its window gets the
\* structure line's timestamp when it is the first word of its line, and
\* otherwise the timestamp assigned to the preceding word of the same line
\* plus 0.3 seconds (not the line's timestamp).
C12_FallbackTimestamp ==
    (WordProcessed /\ CandidatesOf(LastEntry.word, cursor_before) = {}) =>
        IF LastEntry.idx = 0
        THEN LastEntry.ts = structure_lines[LastEntry.line].ts
        ELSE /\ Len(word_level_lyrics) >= 2
             /\ LET prev == word_level_lyrics[Len(word_level_lyrics) - 1]
                IN  /\ prev.line = LastEntry.line
                    /\ prev.idx = LastEntry.idx - 1
                    /\ LastEntry.ts = FAdd(prev.ts, F(30))

\* a second word without candidate whose predecessor was matched at a
\* timestamp other than the line's
C12_Witness ==
    /\ WordProcessed
    /\ CandidatesOf(LastEntry.word, cursor_before) = {}
    /\ LastEntry.idx = 1
    /\ LastEntry.ts = F(430)
    /\ structure_lines[LastEntry.line].ts = F(300)

\* C13: for a word processed with cursor c and a timing sequence of n
\* entries, only the entries at indexes max(0, c-2) up to but excluding
\* min(n, c+50) are compared, at most 52 of them; when one of them is similar
\* to the word the lowest such index i is accepted, the word takes that
\* entry's timestamp and the cursor becomes i + 1; when none is, the cursor
\* stays where it was.
C13_WindowedFirstMatch ==
    WordProcessed =>
        LET window == WindowOf(cursor_before, Len(timing_sequence))
            hits == CandidatesOf(LastEntry.word, cursor_before)
        IN  /\ compared \subseteq window
            /\ Cardinality(compared) <= 52
            /\ IF hits # {}
               THEN \E i \in hits :
                       /\ \A j \in hits : i <= j
                       /\ i \in compared
                       /\ LastEntry.ts = timing_sequence[i + 1].ts
                       /\ timing_index = i + 1
               ELSE timing_index = cursor_before

\* a word whose window holds 52 entries, matched at the last of them
C13_Witness ==
    /\ WordProcessed
    /\ cursor_before = 2
    /\ Cardinality(compared) = 52
    /\ timing_index = 52
    /\ LastEntry.ts = F(500)

====
